---- MODULE Spec2Model ----
(***************************************************************************)
(* The MCP relay of AmbrosioBogdan/Chat: one inbound request to            *)
(* /mcp/:secret, the outbound fetch to the upstream, and the relay of the  *)
(* upstream response to the caller.  The repository holds three versions   *)
(* of the relay handler; `variant` says which one serves the request:      *)
(*   "part_000"  src/unnamed/part_000   stream (SSE) / buffer relay        *)
(*   "index.js"  src/index.js 1-293     always-streaming pipe              *)
(*   "part_001"  src/unnamed/part_001 113-216   reader.read() loop         *)
(* A body is a sequence of byte symbols; the upstream produces it one      *)
(* symbol (one chunk) at a time.  index.js also keeps an in-memory log and *)
(* serves it on three routes; LogSpec follows that log.                    *)
(***************************************************************************)
EXTENDS Integers, Sequences, FiniteSets, TLC

VARIABLES
    variant,      \* which version of the handler runs
    env,          \* process.env: MCP_PATH_SECRET, MCP_SHARED_SECRET, RENDER_API_KEY
    req,          \* the inbound request: path token and method
    pc,           \* position of the handler: idle, dispatched, streaming, buffering, reading, returned, crashed
    passedGate,   \* checkSecret(req, res) returned true for this request
    outCalls,     \* number of fetch(UPSTREAM_MCP_URL) calls issued
    fetchState,   \* none, pending, aborted (controller.abort()), rejected (network failure), resolved
    timerArmed,   \* the setTimeout of the handler is pending
    up,           \* the upstream response (status, headers, body) once fetch resolved
    upSent,       \* number of body chunks the upstream has produced so far
    upState,      \* the upstream body: none, open, ended, errored, cancelled
    readPos,      \* number of body chunks the relay has read from the fetch body
    nodeStream,   \* the Readable.fromWeb stream: none, live, eof, errored, destroyed
    streamBuf,    \* chunks buffered inside nodeStream (read, not yet handed to res)
    mode,         \* the relay path taken: none, nobody, stream, buffer
    res,          \* the express response object
    wire,         \* body bytes the caller has accepted, in order
    resQueue,     \* body bytes written to res that the caller has not yet accepted
    clientOpen,   \* the caller is still connected
    clientReady,  \* the caller's socket accepts bytes
    closeListener,\* a res.on("close") handler is attached
    unhandled,    \* an exception or rejection escaped the request handler
    out,          \* the outbound request given to fetch: method, headers, body
    health,       \* GET /mcp/:secret/health: requests served, the last token and answer
    logBuffer,    \* let logBuffer = []: the in-memory log of index.js, oldest line first
    logCount,     \* number of log(...) calls made since the process started
    logsResp      \* the answer of the log route served by the step just taken

vars == <<variant, env, req, pc, passedGate, outCalls, fetchState, timerArmed, up,
          upSent, upState, readPos, nodeStream, streamBuf, mode, res, wire,
          resQueue, clientOpen, clientReady, closeListener, unhandled, out,
          health, logBuffer, logCount, logsResp>>

(***************************************************************************)
(* Bounds                                                                  *)
(***************************************************************************)
\* longest upstream body, in chunks
MaxBody == 2

\* health requests served
MaxHealth == 2

\* log calls followed beyond the capacity of the log buffer
MaxEvictions == 2

(***************************************************************************)
(* Configuration                                                           *)
(***************************************************************************)
Variants == {"part_000", "index.js", "part_001"}

\* "" is an unset environment variable
PathSecrets == {"", "s3cret"}
SharedSecrets == {"", "shared"}
ApiKeys == {"", "rnd_key"}
Tokens == {"s3cret", "shared"}
Methods == {"GET", "POST"}

\* const MCP_PATH_SECRET = process.env.MCP_PATH_SECRET || process.env.MCP_SHARED_SECRET
\* (part_000, index.js); process.env.MCP_PATH_SECRET alone in part_001
MCP_PATH_SECRET ==
    IF variant = "part_001" THEN env.MCP_PATH_SECRET
    ELSE IF env.MCP_PATH_SECRET # "" THEN env.MCP_PATH_SECRET
    ELSE env.MCP_SHARED_SECRET

RENDER_API_KEY == env.RENDER_API_KEY

\* the handler arms a timeout and an AbortController (not in part_001)
HasTimeout == variant # "part_001"

(***************************************************************************)
(* Bodies and content codings                                              *)
(***************************************************************************)
\* byte symbols: "a" is plain data, "BR" opens a brotli stream, "GZ" a gzip stream
PlainBytes == {"a", "BR"}

SeqsUpTo(S, n) == UNION {[1..k -> S] : k \in 0..n}

Bodies == SeqsUpTo(PlainBytes, MaxBody)

\* what a server sends for a body under a content-encoding
Encode(ce, s) ==
    IF ce = "br" THEN <<"BR">> \o s
    ELSE IF ce = "gzip" THEN <<"GZ">> \o s
    ELSE s

\* zlib brotli decoding: the payload of a brotli stream, or a failure
BrotliValid(w) == Len(w) > 0 /\ w[1] = "BR"
BrotliDecode(w) == Tail(w)
GzipDecode(w) == Tail(w)

\* undici's fetch decodes gzip and br bodies before the handler sees them
FetchDecode(ce, w) ==
    IF ce = "br" THEN BrotliDecode(w)
    ELSE IF ce = "gzip" THEN GzipDecode(w)
    ELSE w

(***************************************************************************)
(* The upstream response                                                   *)
(***************************************************************************)
\* headers.get("content-length") of a response that declares none
NoLen == 0 - 1

ContentTypes == {"text/event-stream", "application/json"}
Encodings == {"", "gzip", "br"}

\* a response: 204 carries no body (upstreamResp.body is null), 200 carries one.
\* `cl` is the declared content-length (the length of the encoded body) or NoLen,
\* `te` is transfer-encoding, `body` is what fetch yields (decoded).
Response(status, ct, declared, ce, payload) ==
    [status |-> status,
     hasBody |-> status # 204,
     ct |-> ct,
     cl |-> IF declared THEN Len(Encode(ce, payload)) ELSE NoLen,
     ce |-> ce,
     te |-> IF declared THEN "" ELSE "chunked",
     cookies |-> <<>>,
     body |-> FetchDecode(ce, Encode(ce, payload))]

\* a response that sets two cookies: two set-cookie header lines
\* (`cookies` is the list of the values of the set-cookie lines of a response)
CookieResponses ==
    {[Response(200, ct, FALSE, "", <<>>) EXCEPT !.cookies = <<"a=1", "b=2">>] :
        ct \in ContentTypes}

Responses ==
    {Response(200, ct, d, ce, p) :
        ct \in ContentTypes, d \in BOOLEAN, ce \in Encodings, p \in Bodies}
    \cup {Response(204, "application/json", FALSE, "", <<>>)}
    \cup CookieResponses

NoResp == [status |-> 0, hasBody |-> FALSE, ct |-> "", cl |-> NoLen, ce |-> "",
           te |-> "", cookies |-> <<>>, body |-> <<>>]


(***************************************************************************)
(* The express response                                                    *)
(***************************************************************************)
NoHeaders == [ct |-> "", cl |-> NoLen, ce |-> "", te |-> "", cc |-> "", conn |-> "",
              sc |-> <<>>]

\* statusCode: res.statusCode; wireStatus, wireHeaders: the status line and headers
\* the caller got (0: none yet); errBody: the `error` string of a JSON error body;
\* writes: calls of res.write; body: the bytes passed to res.write, in order
FreshRes == [statusCode |-> 200, headers |-> NoHeaders, headersSent |-> FALSE,
             wireStatus |-> 0, wireHeaders |-> NoHeaders, ended |-> FALSE,
             errBody |-> "", writes |-> 0, body |-> <<>>]

\* the head of the response goes out once, with the status and headers of that moment
SendHead(r) ==
    IF r.headersSent THEN r
    ELSE [r EXCEPT !.headersSent = TRUE, !.wireStatus = r.statusCode,
                   !.wireHeaders = r.headers]

\* res.flushHeaders()
flushHeaders(r) == SendHead(r)

\* res.end()
end(r) == [SendHead(r) EXCEPT !.ended = TRUE]

\* res.write(chunk)
write(r, chunk) ==
    [SendHead(r) EXCEPT !.writes = r.writes + 1, !.body = r.body \o chunk]

\* res.status(code).json({error: msg}); express throws ERR_HTTP_HEADERS_SENT
\* when the head is already out (the caller checks JsonThrows first)
JsonThrows(r) == r.headersSent
json(r, code, msg) ==
    end([r EXCEPT !.statusCode = code, !.errBody = msg,
                  !.headers = [NoHeaders EXCEPT !.ct = "application/json"]])

(***************************************************************************)
(* The inbound request: headers and captured body                          *)
(***************************************************************************)
\* req.headers as Node gives it: lower-case names, each at most once, here in
\* the order Object.entries walks them.  A value is a list of strings: <<>> the
\* header is absent, <<"">> it is present and empty, several strings an array
\* (Node keeps an array for set-cookie alone).
HeaderOrder == <<"host", "connection", "content-length", "authorization",
                 "accept", "x-custom", "set-cookie">>

HeaderNames == {HeaderOrder[i] : i \in 1..Len(HeaderOrder)}

InHeaders(cl, au, ac, xc, sc) ==
    ("host" :> <<"relay.example">>) @@ ("connection" :> <<"keep-alive">>) @@
    ("content-length" :> cl) @@ ("authorization" :> au) @@ ("accept" :> ac) @@
    ("x-custom" :> xc) @@ ("set-cookie" :> sc)

HeaderSets ==
    {InHeaders(cl, au, ac, xc, sc) :
        cl \in {<<>>, <<"1">>},
        au \in {<<>>, <<"Bearer caller">>},
        ac \in {<<>>, <<"">>, <<"application/json">>},
        xc \in {<<>>, <<"">>, <<"v">>},
        sc \in {<<>>, <<"a", "b">>}}

\* req.body after express.raw({ type: "*/*" }): a Buffer when the body was
\* captured (zero-length included); when the parser skips the request (no body,
\* no content-type) body-parser 1.x leaves {} and body-parser 2.x undefined
ReqBodies ==
    {[kind |-> "buffer", bytes |-> b] : b \in {<<>>, <<"x">>}}
    \cup {[kind |-> "object", bytes |-> <<>>], [kind |-> "undefined", bytes |-> <<>>]}

Messages == [headers : HeaderSets, body : ReqBodies]

\* the request of an MCP client: JSON body captured, Accept given
SessionMessages ==
    {[headers |-> InHeaders(<<"1">>, <<>>, <<"application/json">>, <<>>, <<>>),
      body |-> [kind |-> "buffer", bytes |-> <<"x">>]]}

AllMethods == {"GET", "HEAD", "POST"}

\* no request yet
NoReq == [token |-> "", method |-> "", headers |-> [n \in HeaderNames |-> <<>>],
          body |-> [kind |-> "undefined", bytes |-> <<>>]]

(***************************************************************************)
(* The Header Translator                                                   *)
(***************************************************************************)
\* Array.isArray(v) ? v.join(",") : v
RECURSIVE JoinComma(_)
JoinComma(v) ==
    IF Len(v) = 1 THEN v[1] ELSE v[1] \o "," \o JoinComma(Tail(v))

\* if (!v) continue
Falsy(v) == v = <<>> \/ v = <<"">>

\* if (key === "host" || key === "connection" || key === "content-length") continue
Dropped == {"host", "connection", "content-length"}

\* HTTP header names compare without case
Lower(k) ==
    CASE k = "Authorization" -> "authorization"
      [] k = "Accept" -> "accept"
      [] OTHER -> k

\* a plain object as a list of <<key, value>> in insertion order: obj[k] = v
ObjectSet(obj, k, v) ==
    IF \E i \in 1..Len(obj) : obj[i][1] = k
    THEN [i \in 1..Len(obj) |-> IF obj[i][1] = k THEN <<k, v>> ELSE obj[i]]
    ELSE Append(obj, <<k, v>>)

\* !!obj[k]
ObjectTruthy(obj, k) == \E i \in 1..Len(obj) : obj[i][1] = k /\ obj[i][2] # ""

\* Headers.prototype.append: values of one name (case-insensitive) are combined
HeadersAppend(list, k, v) ==
    IF \E i \in 1..Len(list) : list[i][1] = Lower(k)
    THEN [i \in 1..Len(list) |->
             IF list[i][1] = Lower(k) THEN <<Lower(k), list[i][2] \o ", " \o v>>
             ELSE list[i]]
    ELSE Append(list, <<Lower(k), v>>)

\* Headers.prototype.set: the value of a name (case-insensitive) is replaced
HeadersSet(list, k, v) ==
    IF \E i \in 1..Len(list) : list[i][1] = Lower(k)
    THEN [i \in 1..Len(list) |->
             IF list[i][1] = Lower(k) THEN <<Lower(k), v>> ELSE list[i]]
    ELSE Append(list, <<Lower(k), v>>)

\* Headers.prototype.get as a list: <<>> for null, else the one value
HeadersGet(list, name) ==
    IF \E i \in 1..Len(list) : list[i][1] = name
    THEN <<list[CHOOSE i \in 1..Len(list) : list[i][1] = name][2]>>
    ELSE <<>>

\* new Headers(obj), as fetch does with a plain `headers` object: every own
\* property is appended
RECURSIVE HeadersFill(_, _)
HeadersFill(obj, i) ==
    IF i = 0 THEN <<>>
    ELSE HeadersAppend(HeadersFill(obj, i - 1), obj[i][1], obj[i][2])

\* part_000, index.js: for (const [k, v] of Object.entries(req.headers)) ...
\* headers[k] = ...   (the first i names of HeaderOrder)
RECURSIVE CopyToObject(_, _)
CopyToObject(h, i) ==
    IF i = 0 THEN <<>>
    ELSE LET k == HeaderOrder[i]
             rest == CopyToObject(h, i - 1)
         IN IF Falsy(h[k]) \/ Lower(k) \in Dropped THEN rest
            ELSE ObjectSet(rest, k, JoinComma(h[k]))

\* part_001: the same loop over a Headers instance, headers.set(k, ...)
RECURSIVE CopyToHeaders(_, _)
CopyToHeaders(h, i) ==
    IF i = 0 THEN <<>>
    ELSE LET k == HeaderOrder[i]
             rest == CopyToHeaders(h, i - 1)
         IN IF Falsy(h[k]) \/ Lower(k) \in Dropped THEN rest
            ELSE HeadersSet(rest, k, JoinComma(h[k]))

\* the bearer credential
Bearer == "Bearer " \o RENDER_API_KEY

\* the headers of the outbound request, as the Headers list fetch sends
OutboundHeaders(h) ==
    IF variant = "part_001" THEN
        LET copied == CopyToHeaders(h, Len(HeaderOrder))
            authed == HeadersSet(copied, "Authorization", Bearer)
        IN IF HeadersGet(authed, "accept") \in {<<>>, <<"">>}
           THEN HeadersSet(authed, "Accept", "text/event-stream")
           ELSE authed
    ELSE
        LET copied == CopyToObject(h, Len(HeaderOrder))
            authed == ObjectSet(copied, "Authorization", Bearer)
            accepted == IF ~ObjectTruthy(authed, "Accept")
                           /\ ~ObjectTruthy(authed, "accept")
                        THEN ObjectSet(authed, "Accept", "text/event-stream")
                        ELSE authed
        IN HeadersFill(accepted, Len(accepted))

(***************************************************************************)
(* The outbound body                                                       *)
(***************************************************************************)
\* const hasBody = !(method === "GET" || method === "HEAD")
hasBody(method) == method \notin {"GET", "HEAD"}

NoBody == [present |-> FALSE, bytes |-> <<>>]

\* fetch's conversion of a body that is neither a Buffer nor a stream: String({})
ObjectAsString == <<"[object Object]">>

\* body: hasBody ? bodyToSend : undefined, with
\* bodyToSend = hasBody && req.body && Buffer.isBuffer(req.body) ? req.body : undefined
\* (part_000, index.js); body: hasBody ? req.body : undefined (part_001)
OutboundBody(method, b) ==
    IF ~hasBody(method) THEN NoBody
    ELSE IF b.kind = "buffer" THEN [present |-> TRUE, bytes |-> b.bytes]
    ELSE IF variant = "part_001" /\ b.kind = "object"
         THEN [present |-> TRUE, bytes |-> ObjectAsString]
    ELSE NoBody

NoOut == [method |-> "", headers |-> <<>>, body |-> NoBody]

(***************************************************************************)
(* GET /mcp/:secret/health                                                 *)
(***************************************************************************)
\* no health request served yet
NoHealth == [count |-> 0, token |-> "", status |-> 0, ok |-> FALSE,
             proxy |-> FALSE, error |-> ""]

(***************************************************************************)
(* The in-memory log of index.js                                           *)
(***************************************************************************)
\* const maxLogLines = 1000
maxLogLines == 1000

\* a log that drops the line just pushed (pop) and so keeps the oldest lines
logPop(buf, msg) ==
    LET pushed == Append(buf, msg)
    IN  IF Len(pushed) > maxLogLines THEN SubSeq(pushed, 1, Len(pushed) - 1)
        ELSE pushed

\* function log(...args): logBuffer.push(msg);
\* if (logBuffer.length > maxLogLines) logBuffer.shift();
\* the write to the log file is in a try/catch and does not touch the buffer
log(buf, msg) ==
    LET pushed == Append(buf, msg)
    IN  IF Len(pushed) > maxLogLines THEN Tail(pushed)
        ELSE pushed

\* the log calls made while the module loads: the configuration, the log file,
\* the buffer size, a rule.  A line is written as the number of its log call.
StartupLines == 4

RECURSIVE LogCalls(_, _, _)
LogCalls(buf, from, n) ==
    IF n = 0 THEN buf ELSE LogCalls(log(buf, from), from + 1, n - 1)

StartupLog == LogCalls(<<>>, 1, StartupLines)

\* logBuffer.slice(Math.max(0, logBuffer.length - lines))
Recent(buf, lines) ==
    LET from == IF Len(buf) - lines > 0 THEN Len(buf) - lines ELSE 0
    IN  SubSeq(buf, from + 1, Len(buf))

\* ?lines=N of the log routes, as parseInt reads it, or no such parameter
LinesParams == {[given |-> FALSE, n |-> 0], [given |-> TRUE, n |-> 2]}

\* req.query.lines ? parseInt(req.query.lines) : 100   (200 on /mcp/:secret/logs)
DefaultLines == 100
DefaultSecretLines == 200
LinesOf(q, default) == IF q.given THEN q.n ELSE default

NoLogs == [route |-> "none", status |-> 0, asked |-> 0, count |-> 0, lines |-> <<>>]

(***************************************************************************)
(* Initial state: a configured process, a connected caller, no request yet *)
(***************************************************************************)
Init ==
    /\ variant \in Variants
    /\ env \in [MCP_PATH_SECRET : PathSecrets, MCP_SHARED_SECRET : SharedSecrets,
                RENDER_API_KEY : ApiKeys]
    /\ req = NoReq
    /\ pc = "idle"
    /\ passedGate = FALSE
    /\ outCalls = 0
    /\ fetchState = "none"
    /\ timerArmed = FALSE
    /\ up = NoResp
    /\ upSent = 0
    /\ upState = "none"
    /\ readPos = 0
    /\ nodeStream = "none"
    /\ streamBuf = <<>>
    /\ mode = "none"
    /\ res = FreshRes
    /\ wire = <<>>
    /\ resQueue = <<>>
    /\ clientOpen = TRUE
    /\ clientReady = TRUE
    /\ closeListener = FALSE
    /\ unhandled = FALSE
    /\ out = NoOut
    /\ health = NoHealth
    /\ logBuffer = (IF variant = "index.js" THEN StartupLog ELSE <<>>)
    /\ logCount = Len(logBuffer)
    /\ logsResp = NoLogs

configVars == <<variant, env>>
\* the log of index.js; the relay handlers write lines to it and never read it
logVars == <<logBuffer, logCount, logsResp>>
upstreamVars == <<up, upSent, upState>>
streamVars == <<readPos, nodeStream, streamBuf>>
clientVars == <<wire, resQueue, clientOpen, clientReady>>
fetchVars == <<outCalls, fetchState, timerArmed>>

(***************************************************************************)
(* The Secret Gate and the synchronous head of the handler                 *)
(***************************************************************************)
\* a gate that lets every token through
checkSecretOpen(token) == TRUE

\* function checkSecret(req, res): true when the request may proceed
checkSecret(token) ==
    IF MCP_PATH_SECRET = "" THEN TRUE
    ELSE token = MCP_PATH_SECRET

\* a handler that does not look at the key before it dispatches
MissingKeyIgnored == FALSE

\* if (!RENDER_API_KEY) return res.status(500).json(...)
MissingKey == RENDER_API_KEY = ""

\* return res.status(500).json({ error: "Missing RENDER_API_KEY env var" })
MissingKeyStatus == 500

\* an error body that does not name the missing variable
MissingKeyErrorVague == "Internal Server Error"

MissingKeyError == "Missing RENDER_API_KEY env var"

\* a handler that looks at the key before it looks at the token
EntryChecksKeyFirst(token) ==
    IF MissingKey THEN "missing_key"
    ELSE IF ~checkSecret(token) THEN "unauthorized"
    ELSE "dispatch"

\* if (!checkSecret(req, res)) return; if (!RENDER_API_KEY) return ...:
\* the first check of the entry that fails, in the order the code runs them
EntryChecks(token) ==
    IF ~checkSecret(token) THEN "unauthorized"
    ELSE IF MissingKey THEN "missing_key"
    ELSE "dispatch"

\* app.all("/mcp/:secret"), from its entry to the first await (the fetch call)
HandleRequest(token, method, m) ==
    /\ pc = "idle"
    /\ req' = [token |-> token, method |-> method, headers |-> m.headers,
               body |-> m.body]
    /\ passedGate' = checkSecret(token)
    /\ IF EntryChecks(token) = "unauthorized" THEN
           /\ res' = json(res, 401, "Unauthorized")
           /\ pc' = "returned"
           /\ UNCHANGED <<fetchVars, out>>
       ELSE IF EntryChecks(token) = "missing_key" THEN
           /\ res' = json(res, MissingKeyStatus, MissingKeyError)
           /\ pc' = "returned"
           /\ UNCHANGED <<fetchVars, out>>
       ELSE
           /\ out' = [method |-> method,
                      headers |-> OutboundHeaders(m.headers),
                      body |-> OutboundBody(method, m.body)]
           /\ outCalls' = outCalls + 1
           /\ fetchState' = "pending"
           /\ timerArmed' = HasTimeout
           /\ pc' = "dispatched"
           /\ UNCHANGED res
    /\ UNCHANGED <<configVars, logVars, health, upstreamVars, streamVars, clientVars, mode,
                   closeListener, unhandled>>

(***************************************************************************)
(* The health route                                                        *)
(***************************************************************************)
\* a health route that does not look at the secret
HealthResponseOpen(token) ==
    [status |-> 200, ok |-> TRUE, proxy |-> TRUE, error |-> ""]

\* if (!checkSecret(req, res)) return; res.json({ ok: true, proxy: true })
HealthResponse(token) ==
    IF checkSecret(token)
    THEN [status |-> 200, ok |-> TRUE, proxy |-> TRUE, error |-> ""]
    ELSE [status |-> 401, ok |-> FALSE, proxy |-> FALSE, error |-> "Unauthorized"]

\* app.get("/mcp/:secret/health"): a request of its own, with its own res
Health(token) ==
    /\ health.count < MaxHealth
    /\ health' = [count |-> health.count + 1, token |-> token,
                  status |-> HealthResponse(token).status,
                  ok |-> HealthResponse(token).ok,
                  proxy |-> HealthResponse(token).proxy,
                  error |-> HealthResponse(token).error]
    /\ UNCHANGED <<configVars, logVars, out, req, pc, passedGate, fetchVars, upstreamVars,
                   streamVars, clientVars, mode, res, closeListener, unhandled>>

(***************************************************************************)
(* The Dispatcher: timeout, failure                                        *)
(***************************************************************************)
\* catch (err) { res.status(500).json({ error: err.message }) } at the top of the
\* handler: the status of the error response
CatchStatus == 500

\* a relay whose fetch promise has no .finally: the timer stays as it was
clearTimeoutMissing(armed) == armed

\* .finally(() => clearTimeout(timeoutId)): runs when the fetch promise
\* settles, fulfilled or rejected, before any timer callback can run
clearTimeout(armed) == FALSE

\* the setTimeout callback: controller.abort()
Timeout ==
    /\ timerArmed
    /\ fetchState = "pending"
    /\ fetchState' = "aborted"
    /\ timerArmed' = FALSE
    /\ UNCHANGED <<configVars, logVars, out, health, req, pc, passedGate, outCalls, upstreamVars,
                   streamVars, clientVars, mode, res, closeListener, unhandled>>

\* the aborted fetch rejects with an AbortError, caught at the top of the handler
FetchAborted ==
    /\ pc = "dispatched"
    /\ fetchState = "aborted"
    /\ res' = json(res, CatchStatus, "This operation was aborted")
    /\ pc' = "returned"
    /\ UNCHANGED <<configVars, logVars, out, health, req, passedGate, fetchVars, upstreamVars,
                   streamVars, clientVars, mode, closeListener, unhandled>>

\* fetch rejects on a network failure (refused, DNS, TLS); .finally clears the timer
FetchFailed ==
    /\ pc = "dispatched"
    /\ fetchState = "pending"
    /\ fetchState' = "rejected"
    /\ timerArmed' = clearTimeout(timerArmed)
    /\ res' = json(res, CatchStatus, "fetch failed")
    /\ pc' = "returned"
    /\ UNCHANGED <<configVars, logVars, out, health, req, passedGate, outCalls, upstreamVars,
                   streamVars, clientVars, mode, closeListener, unhandled>>

(***************************************************************************)
(* Receipt of the upstream status and headers                              *)
(***************************************************************************)
\* upstreamResp.headers.forEach(...): the headers the handler puts on res
\* part_000 drops transfer-encoding and content-encoding; index.js drops
\* content-length too and sets Transfer-Encoding: chunked; part_001 drops
\* transfer-encoding only and adds nothing
\* res.setHeader("Transfer-Encoding", "chunked") of index.js, after the copy
OwnFraming == IF variant = "index.js" THEN "chunked" ELSE ""

\* the copy loop over the set-cookie lines, which Headers.forEach passes one by
\* one: res.setHeader("set-cookie", value) for each of the first i lines
\* res.setHeader(name, value) on the values `prev` the name had
setHeader(prev, value) == <<value>>

RECURSIVE SetCookieCopied(_, _)
SetCookieCopied(cookies, i) ==
    IF i = 0 THEN <<>>
    ELSE setHeader(SetCookieCopied(cookies, i - 1), cookies[i])

CopyHeaders(u) ==
    IF variant = "part_000" THEN
        [ct |-> u.ct, cl |-> u.cl, ce |-> "", te |-> OwnFraming,
         cc |-> "no-cache", conn |-> "keep-alive",
         sc |-> SetCookieCopied(u.cookies, Len(u.cookies))]
    ELSE IF variant = "index.js" THEN
        [ct |-> u.ct, cl |-> NoLen, ce |-> "", te |-> OwnFraming,
         cc |-> "no-cache", conn |-> "keep-alive",
         sc |-> SetCookieCopied(u.cookies, Len(u.cookies))]
    ELSE
        [ct |-> u.ct, cl |-> u.cl, ce |-> u.ce, te |-> OwnFraming, cc |-> "",
         conn |-> "", sc |-> SetCookieCopied(u.cookies, Len(u.cookies))]

\* res.status(upstreamResp.status) and the header copy
WithHead(r, u) == [r EXCEPT !.statusCode = u.status, !.headers = CopyHeaders(u)]

\* const isSSE = contentType.includes("text/event-stream")
isSSE(u) == u.ct = "text/event-stream"

\* const contentLength = upstreamResp.headers.get("content-length")  (truthy)
contentLength(u) == u.cl # NoLen

\* a classification that does not look at content-length
ClassifyByTypeOnly(u) ==
    IF variant = "part_000" THEN (IF isSSE(u) THEN "stream" ELSE "buffer")
    ELSE "stream"

\* the branch the handler takes for a response with a body:
\* part_000: if (isSSE && !contentLength) STREAM else BUFFER;
\* index.js and part_001 have the streaming branch alone
Classify(u) ==
    IF variant = "part_000" THEN
        (IF isSSE(u) /\ ~contentLength(u) THEN "stream" ELSE "buffer")
    ELSE "stream"

\* fetch resolved with a response without a body: res.end()
RespondNoBody(u) ==
    /\ pc = "dispatched"
    /\ fetchState = "pending"
    /\ ~u.hasBody
    /\ fetchState' = "resolved"
    /\ timerArmed' = clearTimeout(timerArmed)
    /\ up' = u
    /\ mode' = "nobody"
    /\ res' = end(WithHead(res, u))
    /\ pc' = "returned"
    /\ UNCHANGED <<configVars, logVars, out, health, req, passedGate, outCalls, upSent, upState,
                   streamVars, clientVars, closeListener, unhandled>>

\* part_000, STREAM mode: Readable.fromWeb, flushHeaders, the listeners
\* (readable, data, error, close), pipe
RespondStream(u) ==
    /\ variant = "part_000"
    /\ pc = "dispatched"
    /\ fetchState = "pending"
    /\ u.hasBody
    /\ Classify(u) = "stream"
    /\ fetchState' = "resolved"
    /\ timerArmed' = clearTimeout(timerArmed)
    /\ up' = u
    /\ upState' = "open"
    /\ mode' = "stream"
    /\ nodeStream' = "live"
    /\ res' = flushHeaders(WithHead(res, u))
    /\ closeListener' = TRUE
    /\ pc' = "streaming"
    /\ UNCHANGED <<configVars, logVars, out, health, req, passedGate, outCalls, upSent, readPos,
                   streamBuf, clientVars, unhandled>>

\* part_000, BUFFER mode: await upstreamResp.arrayBuffer()
RespondBuffer(u) ==
    /\ variant = "part_000"
    /\ pc = "dispatched"
    /\ fetchState = "pending"
    /\ u.hasBody
    /\ Classify(u) = "buffer"
    /\ fetchState' = "resolved"
    /\ timerArmed' = clearTimeout(timerArmed)
    /\ up' = u
    /\ upState' = "open"
    /\ mode' = "buffer"
    /\ res' = WithHead(res, u)
    /\ pc' = "buffering"
    /\ UNCHANGED <<configVars, logVars, out, health, req, passedGate, outCalls, upSent, streamVars,
                   clientVars, closeListener, unhandled>>

\* index.js: Readable.fromWeb(upstreamResp.body) is not bound to a name, the head
\* is flushed, then nodeStream.on(...) throws a ReferenceError; the catch calls
\* res.status(500).json(...) on a response whose head is out, which throws again:
\* the handler's promise rejects, no listener is attached, res is left open
RespondIndex(u) ==
    /\ variant = "index.js"
    /\ pc = "dispatched"
    /\ fetchState = "pending"
    /\ u.hasBody
    /\ fetchState' = "resolved"
    /\ timerArmed' = clearTimeout(timerArmed)
    /\ up' = u
    /\ upState' = "open"
    /\ mode' = Classify(u)
    /\ nodeStream' = "live"
    /\ LET flushed == flushHeaders(WithHead(res, u)) IN
       IF JsonThrows(flushed) THEN
           /\ res' = [flushed EXCEPT !.statusCode = CatchStatus]
           /\ unhandled' = TRUE
           /\ pc' = "crashed"
       ELSE
           /\ res' = json(flushed, CatchStatus, "nodeStream is not defined")
           /\ unhandled' = FALSE
           /\ pc' = "returned"
    /\ UNCHANGED <<configVars, logVars, out, health, req, passedGate, outCalls, upSent, readPos,
                   streamBuf, clientVars, closeListener>>

\* part_001: upstreamResp.body.getReader(), res.on("close"), then the read loop
RespondReader(u) ==
    /\ variant = "part_001"
    /\ pc = "dispatched"
    /\ fetchState = "pending"
    /\ u.hasBody
    /\ fetchState' = "resolved"
    /\ timerArmed' = FALSE
    /\ up' = u
    /\ upState' = "open"
    /\ mode' = Classify(u)
    /\ res' = WithHead(res, u)
    /\ closeListener' = TRUE
    /\ pc' = "reading"
    /\ UNCHANGED <<configVars, logVars, out, health, req, passedGate, outCalls, upSent, streamVars,
                   clientVars, unhandled>>

(***************************************************************************)
(* The upstream body                                                       *)
(***************************************************************************)
\* the upstream produces the next chunk of its body
UpstreamSend ==
    /\ upState = "open"
    /\ upSent < Len(up.body)
    /\ upSent' = upSent + 1
    /\ UNCHANGED <<configVars, logVars, out, health, req, pc, passedGate, fetchVars, up, upState,
                   streamVars, clientVars, mode, res, closeListener, unhandled>>

\* the upstream ends its body
UpstreamEnd ==
    /\ upState = "open"
    /\ upSent = Len(up.body)
    /\ upState' = "ended"
    /\ UNCHANGED <<configVars, logVars, out, health, req, pc, passedGate, fetchVars, up, upSent,
                   streamVars, clientVars, mode, res, closeListener, unhandled>>

\* the upstream connection fails while the body is in transfer
UpstreamError ==
    /\ upState = "open"
    /\ upState' = "errored"
    /\ UNCHANGED <<configVars, logVars, out, health, req, pc, passedGate, fetchVars, up, upSent,
                   streamVars, clientVars, mode, res, closeListener, unhandled>>

(***************************************************************************)
(* The caller's connection                                                 *)
(***************************************************************************)
\* bytes written to res reach the caller at once when its socket is ready, wait in
\* the response's queue when it is not, and are dropped when it is gone
Accepted(bytes) == IF clientOpen /\ clientReady THEN wire \o bytes ELSE wire
Queued(bytes) == IF clientOpen /\ ~clientReady THEN resQueue \o bytes ELSE resQueue

\* the caller's socket stops accepting bytes
ClientStall ==
    /\ pc \in {"streaming", "buffering", "reading"}
    /\ clientOpen
    /\ clientReady
    /\ clientReady' = FALSE
    /\ UNCHANGED <<configVars, logVars, out, health, req, pc, passedGate, fetchVars, upstreamVars,
                   streamVars, mode, res, wire, resQueue, clientOpen,
                   closeListener, unhandled>>

\* the caller's socket accepts bytes again: the queue drains
ClientDrain ==
    /\ clientOpen
    /\ ~clientReady
    /\ clientReady' = TRUE
    /\ wire' = wire \o resQueue
    /\ resQueue' = <<>>
    /\ UNCHANGED <<configVars, logVars, out, health, req, pc, passedGate, fetchVars, upstreamVars,
                   streamVars, mode, res, clientOpen, closeListener, unhandled>>

(***************************************************************************)
(* part_000, STREAM mode                                                   *)
(***************************************************************************)
\* highWaterMark of the Readable made by Readable.fromWeb, in chunks: the stream
\* calls reader.read() only while it buffers less
HighWaterMark == 1

\* the 'readable' listener (attached before pipe, and never calling read())
readableListening == variant = "part_000"

\* Readable.resume(), called by pipe(): state.flowing = !state.readableListening.
\* A stream that is not flowing emits 'data' only from read(), which nothing calls.
flowing == ~readableListening

\* nodeStream reads a chunk of the upstream body: readable.push(chunk).  Flowing,
\* the chunk is emitted as 'data' and pipe writes it to res; pipe pauses the
\* stream while res wants a drain.  Not flowing, the chunk stays in the buffer.
StreamPush ==
    /\ pc = "streaming"
    /\ nodeStream = "live"
    /\ upState \in {"open", "ended"}
    /\ readPos < upSent
    /\ Len(streamBuf) < HighWaterMark
    /\ flowing => resQueue = <<>>
    /\ readPos' = readPos + 1
    /\ LET chunk == <<up.body[readPos + 1]>> IN
       IF flowing THEN
           /\ res' = write(res, chunk)
           /\ wire' = Accepted(chunk)
           /\ resQueue' = Queued(chunk)
           /\ UNCHANGED streamBuf
       ELSE
           /\ streamBuf' = streamBuf \o chunk
           /\ UNCHANGED <<res, wire, resQueue>>
    /\ UNCHANGED <<configVars, logVars, out, health, req, pc, passedGate, fetchVars, upstreamVars,
                   nodeStream, mode, clientOpen, clientReady, closeListener,
                   unhandled>>

\* nodeStream reads the end of the upstream body: readable.push(null).  'end' is
\* emitted (and pipe calls res.end()) once the buffer is empty, flowing only.
StreamEof ==
    /\ pc = "streaming"
    /\ nodeStream = "live"
    /\ upState = "ended"
    /\ readPos = Len(up.body)
    /\ Len(streamBuf) < HighWaterMark
    /\ nodeStream' = "eof"
    /\ IF flowing /\ streamBuf = <<>> THEN
           /\ res' = end(res)
           /\ pc' = "returned"
       ELSE UNCHANGED <<res, pc>>
    /\ UNCHANGED <<configVars, logVars, out, health, req, passedGate, fetchVars, upstreamVars, readPos,
                   streamBuf, clientVars, mode, closeListener, unhandled>>

\* nodeStream.on("error"): 502 JSON when the head is not out, else res.end()
StreamError ==
    /\ pc = "streaming"
    /\ nodeStream = "live"
    /\ upState = "errored"
    /\ nodeStream' = "errored"
    /\ streamBuf' = <<>>
    /\ IF ~res.headersSent THEN
           res' = json(res, 502, "Upstream stream failed")
       ELSE
           res' = end(res)
    /\ pc' = "returned"
    /\ UNCHANGED <<configVars, logVars, out, health, req, passedGate, fetchVars, upstreamVars, readPos,
                   clientVars, mode, closeListener, unhandled>>

(***************************************************************************)
(* part_000, BUFFER mode                                                   *)
(***************************************************************************)
\* if (contentEncoding.includes("br")): the handler runs createBrotliDecompress
\* over the body fetch gave it
RelayDecompresses(u) == u.ce = "br"

\* Buffer.poolSize >>> 1: Buffer.concat takes a shorter, non-empty result from
\* the shared allocation pool
PoolHalf == 4096

\* bytes of the pool that belong to other buffers
StrayBytes == {"?"}

\* Buffer.from(decompressed.buffer): a view of the whole ArrayBuffer under
\* `decompressed`, which is the shared pool for a pooled buffer; what lies around
\* the decompressed bytes is whatever the pool holds
PoolView(d) ==
    IF Len(d) > 0 /\ Len(d) < PoolHalf THEN
        {<<x>> \o d : x \in StrayBytes} \cup {d \o <<x>> : x \in StrayBytes}
    ELSE {d}

\* the Buffer the handler writes once arrayBuffer() has resolved (none when the
\* decompressor rejects the body)
NodeBuffers(u) ==
    IF ~RelayDecompresses(u) THEN {u.body}
    ELSE IF BrotliValid(u.body) THEN PoolView(BrotliDecode(u.body))
    ELSE {}

\* arrayBuffer() resolved (the body is complete), decompression succeeded or was
\* not needed: res.write(nodeBuffer); res.end()
BufferDone(nodeBuffer) ==
    /\ pc = "buffering"
    /\ upState = "ended"
    /\ RelayDecompresses(up) => BrotliValid(up.body)
    /\ nodeBuffer \in NodeBuffers(up)
    /\ readPos' = Len(up.body)
    /\ res' = end(write(res, nodeBuffer))
    /\ wire' = Accepted(nodeBuffer)
    /\ resQueue' = Queued(nodeBuffer)
    /\ pc' = "returned"
    /\ UNCHANGED <<configVars, logVars, out, health, req, passedGate, fetchVars, upstreamVars,
                   nodeStream, streamBuf, clientOpen, clientReady, mode,
                   closeListener, unhandled>>

\* the inner catch of BUFFER mode: 502 JSON when the head is not out, else res.end()
BufferCatch(r, msg) ==
    IF ~r.headersSent THEN json(r, 502, msg) ELSE end(r)

\* arrayBuffer() resolved and the brotli decompressor rejects the body
BufferDecodeFail ==
    /\ pc = "buffering"
    /\ upState = "ended"
    /\ RelayDecompresses(up)
    /\ ~BrotliValid(up.body)
    /\ readPos' = Len(up.body)
    /\ res' = BufferCatch(res, "Failed to read upstream response")
    /\ pc' = "returned"
    /\ UNCHANGED <<configVars, logVars, out, health, req, passedGate, fetchVars, upstreamVars,
                   nodeStream, streamBuf, clientVars, mode, closeListener,
                   unhandled>>

\* arrayBuffer() rejects: the upstream failed while the body was read
BufferFail ==
    /\ pc = "buffering"
    /\ upState = "errored"
    /\ res' = BufferCatch(res, "Failed to read upstream response")
    /\ pc' = "returned"
    /\ UNCHANGED <<configVars, logVars, out, health, req, passedGate, fetchVars, upstreamVars,
                   streamVars, clientVars, mode, closeListener, unhandled>>

(***************************************************************************)
(* part_001, the reader.read() loop                                        *)
(***************************************************************************)
\* const { done, value } = await reader.read(); res.write(Buffer.from(value))
\* (the result of res.write is not looked at)
ReaderRead ==
    /\ pc = "reading"
    /\ upState \in {"open", "ended"}
    /\ readPos < upSent
    /\ readPos' = readPos + 1
    /\ res' = write(res, <<up.body[readPos + 1]>>)
    /\ wire' = Accepted(<<up.body[readPos + 1]>>)
    /\ resQueue' = Queued(<<up.body[readPos + 1]>>)
    /\ UNCHANGED <<configVars, logVars, out, health, req, pc, passedGate, fetchVars, upstreamVars,
                   nodeStream, streamBuf, clientOpen, clientReady, mode,
                   closeListener, unhandled>>

\* done: the body ended, or the reader was cancelled; break; res.end()
ReaderDone ==
    /\ pc = "reading"
    /\ \/ upState = "ended" /\ readPos = Len(up.body)
       \/ upState = "cancelled"
    /\ res' = end(res)
    /\ pc' = "returned"
    /\ UNCHANGED <<configVars, logVars, out, health, req, passedGate, fetchVars, upstreamVars,
                   streamVars, clientVars, mode, closeListener, unhandled>>

\* reader.read() rejects; the top-level catch answers 500 JSON, which throws out
\* of the handler when the head is already out
ReaderError ==
    /\ pc = "reading"
    /\ upState = "errored"
    /\ IF JsonThrows(res) THEN
           /\ res' = [res EXCEPT !.statusCode = CatchStatus]
           /\ unhandled' = TRUE
           /\ pc' = "crashed"
       ELSE
           /\ res' = json(res, CatchStatus, "terminated")
           /\ pc' = "returned"
           /\ UNCHANGED unhandled
    /\ UNCHANGED <<configVars, logVars, out, health, req, passedGate, fetchVars, upstreamVars,
                   streamVars, clientVars, mode, closeListener>>

(***************************************************************************)
(* The caller disconnects                                                  *)
(***************************************************************************)
\* res emits 'close'.  part_000: nodeStream.destroy() cancels the upstream read.
\* part_001: reader.cancel(), whose promise nothing handles: it rejects when the
\* stream has errored.  Without a listener (before the response, in BUFFER mode,
\* in index.js) nothing happens.
ClientClose ==
    /\ pc # "idle"
    /\ clientOpen
    /\ ~res.ended
    /\ clientOpen' = FALSE
    /\ resQueue' = <<>>
    /\ IF closeListener /\ variant = "part_000" THEN
           /\ nodeStream' = IF nodeStream \in {"live", "eof"} THEN "destroyed"
                            ELSE nodeStream
           /\ streamBuf' = <<>>
           /\ upState' = IF upState = "open" THEN "cancelled" ELSE upState
           /\ pc' = "returned"
           /\ UNCHANGED unhandled
       ELSE IF closeListener /\ variant = "part_001" THEN
           /\ upState' = IF upState \in {"open", "ended"} THEN "cancelled"
                         ELSE upState
           /\ unhandled' = (unhandled \/ upState = "errored")
           /\ UNCHANGED <<nodeStream, streamBuf, pc>>
       ELSE UNCHANGED <<nodeStream, streamBuf, upState, unhandled, pc>>
    /\ UNCHANGED <<configVars, logVars, out, health, req, passedGate, fetchVars, up, upSent, readPos,
                   mode, res, wire, clientReady, closeListener>>

(***************************************************************************)
(* index.js: the log and its routes                                        *)
(***************************************************************************)
\* everything a relay session holds; the log routes touch none of it
sessionVars == <<req, pc, passedGate, fetchVars, upstreamVars, streamVars, clientVars,
                 mode, res, closeListener, unhandled, out, health>>

\* const reqLog = (msg) => log(`[${requestId}]`, msg): one log call made by the
\* handler of a relay request or by one of its callbacks
reqLog ==
    /\ variant = "index.js"
    /\ logCount < maxLogLines + MaxEvictions
    /\ logBuffer' = log(logBuffer, logCount + 1)
    /\ logCount' = logCount + 1
    /\ logsResp' = NoLogs
    /\ UNCHANGED <<configVars, sessionVars>>

\* the body of a log answer: the last `lines` lines of the buffer
LogsAnswer(route, lines) ==
    [route |-> route, status |-> 200, asked |-> lines,
     count |-> Len(Recent(logBuffer, lines)), lines |-> Recent(logBuffer, lines)]

\* app.get("/logs"): no gate; text/plain, the recent lines joined by newlines
Logs(q) ==
    /\ variant = "index.js"
    /\ logsResp' = LogsAnswer("/logs", LinesOf(q, DefaultLines))
    /\ UNCHANGED <<configVars, sessionVars, logBuffer, logCount>>

\* app.get("/logs/json"): no gate; { count, lines, timestamp }
LogsJson(q) ==
    /\ variant = "index.js"
    /\ logsResp' = LogsAnswer("/logs/json", LinesOf(q, DefaultLines))
    /\ UNCHANGED <<configVars, sessionVars, logBuffer, logCount>>

\* app.get("/mcp/:secret/logs"): if (!checkSecret(req, res)) return;
\* { count, logFile, lines, timestamp }
SecretLogs(token, q) ==
    /\ variant = "index.js"
    /\ logsResp' = IF checkSecret(token)
                   THEN LogsAnswer("/mcp/:secret/logs", LinesOf(q, DefaultSecretLines))
                   ELSE [route |-> "/mcp/:secret/logs", status |-> 401,
                         asked |-> LinesOf(q, DefaultSecretLines), count |-> 0,
                         lines |-> <<>>]
    /\ UNCHANGED <<configVars, sessionVars, logBuffer, logCount>>

\* index.js seen from its log: relay requests that write lines, in any
\* interleaving with requests to the three log routes
LogNext ==
    \/ reqLog
    \/ \E q \in LinesParams : Logs(q)
    \/ \E q \in LinesParams : LogsJson(q)
    \/ \E token \in Tokens, q \in LinesParams : SecretLogs(token, q)

LogSpec == Init /\ [][LogNext]_vars

(***************************************************************************)
(* The specification                                                       *)
(***************************************************************************)
Next ==
    \/ \E token \in Tokens, method \in Methods, m \in SessionMessages :
           HandleRequest(token, method, m)
    \/ Timeout
    \/ FetchAborted
    \/ FetchFailed
    \/ \E u \in Responses : RespondNoBody(u)
    \/ \E u \in Responses : RespondStream(u)
    \/ \E u \in Responses : RespondBuffer(u)
    \/ \E u \in Responses : RespondIndex(u)
    \/ \E u \in Responses : RespondReader(u)
    \/ UpstreamSend
    \/ UpstreamEnd
    \/ UpstreamError
    \/ ClientStall
    \/ ClientDrain
    \/ StreamPush
    \/ StreamEof
    \/ StreamError
    \/ \E nodeBuffer \in NodeBuffers(up) : BufferDone(nodeBuffer)
    \/ BufferDecodeFail
    \/ BufferFail
    \/ ReaderRead
    \/ ReaderDone
    \/ ReaderError
    \/ ClientClose

Spec == Init /\ [][Next]_vars

\* the event loop runs every callback that is ready: the timeout callback, the
\* continuation of an awaited promise, the listeners of the stream, the drain
\* of the caller's socket
RelayFairness ==
    /\ WF_vars(Timeout)
    /\ WF_vars(FetchAborted)
    /\ WF_vars(StreamPush)
    /\ WF_vars(StreamEof)
    /\ WF_vars(StreamError)
    /\ WF_vars(\E nodeBuffer \in NodeBuffers(up) : BufferDone(nodeBuffer))
    /\ WF_vars(BufferDecodeFail)
    /\ WF_vars(BufferFail)
    /\ WF_vars(ReaderRead)
    /\ WF_vars(ReaderDone)
    /\ WF_vars(ReaderError)
    /\ WF_vars(ClientDrain)

\* fetch itself bounds the wait for the head and for each chunk of the body
\* (the HTTP client's own timers): a fetch that stays pending is rejected in the
\* end, a body that stays open fails in the end.  The upstream is free to stall:
\* nothing makes it send or end.
FetchFairness ==
    /\ WF_vars(FetchFailed)
    /\ WF_vars(UpstreamError)

\* the relay under fair scheduling of its timer and I/O events
LiveSpec == Init /\ [][Next]_vars /\ RelayFairness /\ FetchFairness

\* the front of the server: the health route, and the relay route from the
\* arrival of a request of any shape to its dispatch
FrontNext ==
    \/ \E token \in Tokens, method \in AllMethods, m \in Messages :
           HandleRequest(token, method, m)
    \/ \E token \in Tokens : Health(token)

FrontSpec == Init /\ [][FrontNext]_vars

(***************************************************************************)
(* Session outcomes                                                        *)
(***************************************************************************)
\* the handler and its callbacks have nothing left to do for the request
SessionEnded == pc \in {"returned", "crashed"}

\* the bytes the caller is owed: the body fetch yields, brotli-decoded when the
\* relay itself decompresses it (part_000, BUFFER mode)
ExpectedBody ==
    IF variant = "part_000" /\ mode = "buffer" /\ RelayDecompresses(up)
       /\ BrotliValid(up.body)
    THEN BrotliDecode(up.body)
    ELSE up.body

\* the upstream response went to the caller whole: its status, and its complete body
FullyForwarded ==
    /\ fetchState = "resolved"
    /\ res.ended
    /\ res.wireStatus = up.status
    /\ up.hasBody => upState = "ended" /\ res.body = ExpectedBody

\* the relay answered with an error response of its own
ErrorTerminated == res.ended /\ res.errBody # ""

(***************************************************************************)
(* C1: a request to /mcp/:secret whose token differs from the configured   *)
(* secret is answered 401 {"error":"Unauthorized"} and no outbound call is *)
(* ever issued for it; with no secret configured every token is let in.    *)
(***************************************************************************)
C1_GateRejects ==
    pc # "idle" =>
        /\ (MCP_PATH_SECRET # "" /\ req.token # MCP_PATH_SECRET) =>
               /\ res.ended
               /\ res.wireStatus = 401
               /\ res.errBody = "Unauthorized"
               /\ outCalls = 0
               /\ fetchState = "none"
        /\ MCP_PATH_SECRET = "" => passedGate /\ res.wireStatus # 401

\* a rejected request: secret configured, wrong token, 401 sent
C1_Witness ==
    /\ pc = "returned"
    /\ MCP_PATH_SECRET # ""
    /\ req.token # MCP_PATH_SECRET
    /\ res.wireStatus = 401
    /\ outCalls = 0

(***************************************************************************)
(* C2 (as claimed): every request that passes the gate has exactly one     *)
(* outbound request, and an ended session has either fully forwarded the   *)
(* upstream response or ended with an error status, never both and never   *)
(* neither.                                                                *)
(***************************************************************************)
C2_ExactlyOneOutcome ==
    /\ (pc # "idle" /\ passedGate) => outCalls = 1
    /\ SessionEnded => (FullyForwarded # ErrorTerminated)

(***************************************************************************)
(* C2 (amended): a request that passes the gate has at most one outbound   *)
(* request, exactly one when RENDER_API_KEY is configured and none when it *)
(* is missing; a session never both forwards the upstream response whole   *)
(* and answers with an error of its own; when it ends with neither, the    *)
(* head of the upstream response (its status) had already been sent.       *)
(***************************************************************************)
C2_AtMostOneOutcome ==
    /\ outCalls <= 1
    /\ pc # "idle" => (outCalls = 1 <=> (passedGate /\ RENDER_API_KEY # ""))
    /\ ~(FullyForwarded /\ ErrorTerminated)
    /\ (SessionEnded /\ ~FullyForwarded /\ ~ErrorTerminated) =>
           /\ up.hasBody
           /\ res.headersSent
           /\ res.wireStatus = up.status

\* a session that passed the gate and ended with neither outcome: the upstream
\* failed after the head was flushed
C2_Witness ==
    /\ passedGate
    /\ outCalls = 1
    /\ SessionEnded
    /\ upState = "errored"
    /\ ~FullyForwarded
    /\ ~ErrorTerminated

C4_StreamsAsItArrives ==
    (variant = "part_000" /\ mode = "stream") =>
        /\ res.headersSent
        /\ res.wireStatus = up.status
        /\ (readPos >= 1 /\ clientOpen /\ clientReady) => Len(wire) >= 1

(***************************************************************************)
(* C5: the bytes the caller has received are always a prefix of the bytes  *)
(* of the upstream body (after the relay's own decompression), and equal   *)
(* to them once the session is Completed, a 0-byte body included.          *)
(***************************************************************************)
IsPrefix(a, b) == Len(a) <= Len(b) /\ SubSeq(b, 1, Len(a)) = a

\* the upstream body reached its end and every byte written was accepted
Completed ==
    /\ fetchState = "resolved"
    /\ up.hasBody
    /\ upState = "ended"
    /\ res.ended
    /\ res.errBody = ""
    /\ clientOpen
    /\ resQueue = <<>>

C5_RoundTrip ==
    /\ IsPrefix(wire, ExpectedBody)
    /\ Completed => wire = ExpectedBody

(***************************************************************************)
(* C6: on the Buffering path the body goes out in one write, made after    *)
(* the upstream body is complete, and the content-length sent to the       *)
(* caller is absent or equal to the number of bytes written.               *)
(***************************************************************************)
C6_BufferedLength ==
    mode = "buffer" =>
        /\ res.writes <= 1
        /\ res.writes = 1 => upState = "ended"
        /\ (res.ended /\ res.errBody = "") =>
               \/ res.wireHeaders.cl = NoLen
               \/ res.wireHeaders.cl = Len(res.body)

(***************************************************************************)
(* C7: on the Streaming path the bytes read from the upstream and not yet  *)
(* accepted by the caller stay within the stream's high-water mark: the    *)
(* relay stops reading while the caller is not ready.                      *)
(***************************************************************************)
C7_Backpressure ==
    mode = "stream" => Len(streamBuf) + Len(resQueue) <= HighWaterMark

(***************************************************************************)
(* C8: when the caller disconnects while a streaming relay is in progress, *)
(* the read of the upstream body is cancelled and no exception or          *)
(* rejection has escaped the handler.                                      *)
(***************************************************************************)
C8_AbortCancelsUpstream ==
    [][(mode = "stream" /\ ~res.ended /\ clientOpen /\ ~clientOpen') =>
           (upState' # "open" /\ ~unhandled')]_vars

(***************************************************************************)
(* C9: when the caller disconnects while the outbound call is in flight    *)
(* (Dispatched), the outbound call is cancelled.                           *)
(***************************************************************************)
C9_DisconnectCancelsFetch ==
    (pc = "dispatched" /\ ~clientOpen) => fetchState = "aborted"

(***************************************************************************)
(* C10: when the timeout aborts an outbound call that got no response, the *)
(* caller receives 502 with a JSON error body.                             *)
(***************************************************************************)
C10_TimeoutIs502 ==
    (fetchState = "aborted" /\ pc = "returned") =>
        /\ res.ended
        /\ res.wireStatus = 502
        /\ res.errBody # ""

(***************************************************************************)
(* C11: when the outbound call fails at network level before any response  *)
(* the caller receives 502 with a JSON error body, and the call is not     *)
(* retried: one outbound call was issued for the request.                  *)
(***************************************************************************)
C11_UnreachableIs502 ==
    fetchState = "rejected" =>
        /\ outCalls = 1
        /\ res.ended
        /\ res.wireStatus = 502
        /\ res.errBody # ""

(***************************************************************************)
(* C12: when the upstream body errors on the Streaming path and the relay  *)
(* has dealt with it, a caller that got no body byte has received 502 with *)
(* a JSON error body, and a caller that got bytes has had its response     *)
(* ended without an error body.                                            *)
(***************************************************************************)
C12_MidStreamError ==
    (mode = "stream" /\ upState = "errored" /\ SessionEnded /\ clientOpen) =>
        IF res.body = <<>>
        THEN res.ended /\ res.wireStatus = 502 /\ res.errBody # ""
        ELSE res.ended /\ res.errBody = ""

(***************************************************************************)
(* C13 (as stated): with RENDER_API_KEY unset every call to /mcp/:secret   *)
(* is answered 500 {"error":"Missing RENDER_API_KEY env var"} and issues   *)
(* no outbound call.                                                       *)
(***************************************************************************)
C13_MissingKeyAlways500 ==
    (pc # "idle" /\ RENDER_API_KEY = "") =>
        /\ outCalls = 0
        /\ res.ended
        /\ res.wireStatus = 500
        /\ res.errBody = "Missing RENDER_API_KEY env var"

(***************************************************************************)
(* C13 (amended): with RENDER_API_KEY unset no call to /mcp/:secret issues *)
(* an outbound call; a call that passes the Secret Gate is answered 500    *)
(* {"error":"Missing RENDER_API_KEY env var"}, one that fails it 401.      *)
(***************************************************************************)
C13_MissingKeyAfterGate ==
    (pc # "idle" /\ RENDER_API_KEY = "") =>
        /\ outCalls = 0
        /\ fetchState = "none"
        /\ pc = "returned"
        /\ res.ended
        /\ res.wireHeaders.ct = "application/json"
        /\ passedGate =>
               /\ res.wireStatus = 500
               /\ res.errBody = "Missing RENDER_API_KEY env var"
        /\ ~passedGate =>
               /\ res.wireStatus = 401
               /\ res.errBody = "Unauthorized"

C13_Witness ==
    /\ pc = "returned"
    /\ RENDER_API_KEY = ""
    /\ MCP_PATH_SECRET # ""
    /\ req.token = MCP_PATH_SECRET
    /\ res.wireStatus = 500
    /\ outCalls = 0

(***************************************************************************)
(* C14: every error response is a JSON object with an `error` string, and  *)
(* once the head of a response is out the handler sets no new status and   *)
(* writes no error body: no such attempt is made and none throws out of    *)
(* the handler.                                                            *)
(***************************************************************************)
C14_NoErrorAfterFlush ==
    /\ res.errBody # "" => res.wireHeaders.ct = "application/json"
    /\ res.headersSent =>
           /\ res.statusCode = res.wireStatus
           /\ ~unhandled

(***************************************************************************)
(* C18: the caller is never sent the content-encoding of an upstream body  *)
(* that reaches it decoded (by fetch or by the relay).                     *)
(***************************************************************************)
C18_NoStaleContentEncoding ==
    (res.headersSent /\ res.errBody = "" /\ up.hasBody /\ up.ce # "") =>
        res.wireHeaders.ce = ""

(***************************************************************************)
(* C15: whatever headers the inbound request carries, an Authorization     *)
(* header of its own included, the Authorization header of the outbound    *)
(* request is exactly "Bearer <RENDER_API_KEY>".                           *)
(***************************************************************************)
C15_AuthorizationOverwritten ==
    pc = "dispatched" => HeadersGet(out.headers, "authorization") = <<Bearer>>

(***************************************************************************)
(* C16: the outbound headers carry no host, connection or content-length;  *)
(* every other inbound header is copied with its value (an array joined    *)
(* with ","); Accept is text/event-stream exactly when the inbound request *)
(* has no Accept, and the inbound Accept otherwise; no other header is     *)
(* added.                                                                  *)
(***************************************************************************)
C16_HeaderTranslator ==
    pc = "dispatched" =>
        /\ \A n \in Dropped : HeadersGet(out.headers, n) = <<>>
        /\ \A n \in HeaderNames \ (Dropped \cup {"authorization", "accept"}) :
               HeadersGet(out.headers, n) =
                   IF req.headers[n] = <<>> THEN <<>>
                   ELSE <<JoinComma(req.headers[n])>>
        /\ HeadersGet(out.headers, "accept") =
               IF req.headers["accept"] = <<>> THEN <<"text/event-stream">>
               ELSE <<JoinComma(req.headers["accept"])>>
        /\ \A i \in 1..Len(out.headers) : out.headers[i][1] \in HeaderNames

(***************************************************************************)
(* C17: the outbound request carries a body only for a method other than   *)
(* GET and HEAD; for such a method the captured body, a zero-length one    *)
(* included, is forwarded, and the body forwarded is always the captured   *)
(* bytes themselves.                                                       *)
(***************************************************************************)
C17_BodyForwarded ==
    pc = "dispatched" =>
        /\ out.body.present => hasBody(req.method)
        /\ (hasBody(req.method) /\ req.body.kind = "buffer") =>
               out.body = [present |-> TRUE, bytes |-> req.body.bytes]
        /\ out.body.present =>
               (req.body.kind = "buffer" /\ out.body.bytes = req.body.bytes)

(***************************************************************************)
(* C20: a request to GET /mcp/:secret/health answers 200 with ok:true and  *)
(* proxy:true when the token passes the gate (or no secret is configured)  *)
(* and 401 otherwise, the same on every repetition, and it changes nothing *)
(* else: no outbound call, no change to any relay session.                 *)
(***************************************************************************)
C20_HealthIdempotent ==
    [][health' # health =>
          /\ UNCHANGED <<variant, env, req, pc, passedGate, outCalls, fetchState,
                         timerArmed, up, upSent, upState, readPos, nodeStream,
                         streamBuf, mode, res, wire, resQueue, clientOpen,
                         clientReady, closeListener, unhandled, out>>
          /\ IF MCP_PATH_SECRET = "" \/ health'.token = MCP_PATH_SECRET
             THEN health'.status = 200 /\ health'.ok /\ health'.proxy
             ELSE health'.status = 401 /\ health'.error = "Unauthorized"
                  /\ ~health'.ok]_vars

C20_Witness ==
    /\ health.count = MaxHealth
    /\ health.status = 200
    /\ MCP_PATH_SECRET # ""
    /\ pc = "dispatched"
    /\ outCalls = 1

(***************************************************************************)
(* C19: for a relayed upstream response the status sent to the caller is   *)
(* the upstream status, the upstream transfer-encoding is not copied, and  *)
(* the other upstream headers reach the caller with their upstream values  *)
(* (content-encoding and content-length aside).                            *)
(***************************************************************************)
C19_HeadMirrored ==
    (fetchState = "resolved" /\ res.headersSent /\ res.errBody = "") =>
        /\ res.wireStatus = up.status
        /\ res.wireHeaders.te = OwnFraming
        /\ res.wireHeaders.ct = up.ct
        /\ res.wireHeaders.sc = up.cookies

(***************************************************************************)
(* C27: the Secret Gate is evaluated before the credential check: a        *)
(* request whose token fails the gate is answered 401 and never 500, also  *)
(* when RENDER_API_KEY is unset, in each of the three handlers.            *)
(***************************************************************************)
C27_GateBeforeKey ==
    (pc # "idle" /\ ~checkSecret(req.token)) =>
        /\ pc = "returned"
        /\ res.statusCode = 401
        /\ res.wireStatus = 401
        /\ res.wireStatus # MissingKeyStatus
        /\ res.errBody # MissingKeyError

\* a request with a wrong token reached a relay that has no RENDER_API_KEY
C27_Witness ==
    /\ pc = "returned"
    /\ RENDER_API_KEY = ""
    /\ ~checkSecret(req.token)
    /\ res.wireStatus = 401

(***************************************************************************)
(* C26: the timeout timer is cleared whenever the fetch settles, by        *)
(* success or by failure: the timer is armed only while the session is     *)
(* Dispatched with the fetch pending, the abort fires only there, never    *)
(* after the status and headers were received, and at most once: after an  *)
(* abort the controller stays aborted and the timer is never armed again.  *)
(***************************************************************************)
C26_TimerClearedOnSettle ==
    /\ [](timerArmed => (pc = "dispatched" /\ fetchState = "pending"))
    /\ [](fetchState \in {"resolved", "rejected"} => ~timerArmed)
    /\ [][(fetchState' = "aborted" /\ fetchState # "aborted") =>
              /\ pc = "dispatched"
              /\ fetchState = "pending"
              /\ timerArmed
              /\ ~timerArmed'
              /\ res' = res]_vars
    /\ [][fetchState = "aborted" =>
              (fetchState' = "aborted" /\ ~timerArmed /\ ~timerArmed')]_vars

\* the fetch resolved while the timer was armed, and the session went on to
\* relay a body with the timer cleared
C26_Witness ==
    /\ HasTimeout
    /\ fetchState = "resolved"
    /\ pc \in {"streaming", "buffering"}
    /\ upSent > 0
    /\ ~timerArmed

(***************************************************************************)
(* C25: on the Streaming path the stream source is constructed before the  *)
(* listeners are attached and before the pipe is started, so a session     *)
(* that streams an upstream response with a body, and whose upstream has   *)
(* not failed, never fails with an internal error: no exception of the     *)
(* relay's own, no 500 status set, no unhandled rejection.                 *)
(***************************************************************************)
C25_StreamSourceConstructed ==
    (fetchState = "resolved" /\ up.hasBody /\ mode = "stream"
     /\ upState # "errored") =>
        /\ pc # "crashed"
        /\ ~unhandled
        /\ res.statusCode # CatchStatus

(***************************************************************************)
(* C23: the secret the gate compares with is MCP_PATH_SECRET when that is  *)
(* set and MCP_SHARED_SECRET otherwise; the gate is open only when both    *)
(* are unset, and a token is let in exactly when it equals the selected    *)
(* secret.                                                                 *)
(***************************************************************************)
C23_SecretFallback ==
    LET selected == IF env.MCP_PATH_SECRET # "" THEN env.MCP_PATH_SECRET
                    ELSE env.MCP_SHARED_SECRET
    IN  pc # "idle" =>
            /\ passedGate <=> (selected = "" \/ req.token = selected)
            /\ ~passedGate => (res.wireStatus = 401 /\ outCalls = 0)

(***************************************************************************)
(* C24: a relay session only moves Idle -> Dispatched -> Classifying ->    *)
(* (Buffering or Streaming) -> (Completed or Failed), Failed also from     *)
(* Dispatched and from the gate; the classification happens on receipt of  *)
(* the status and headers, with no byte of the body read or written yet;   *)
(* an ended session is absorbing: no further status, header or byte is     *)
(* written to the caller and nothing more is read from the upstream.       *)
(***************************************************************************)
C24_SessionOrder ==
    [][/\ pc' # pc =>
              \/ pc = "idle" /\ pc' \in {"dispatched", "returned"}
              \/ pc = "dispatched"
                   /\ pc' \in {"buffering", "streaming", "reading", "returned"}
              \/ pc \in {"buffering", "streaming", "reading"} /\ pc' = "returned"
       /\ (pc = "dispatched" /\ pc' \in {"buffering", "streaming", "reading"}) =>
              /\ fetchState = "pending" /\ fetchState' = "resolved"
              /\ up'.status # 0
              /\ mode' \in {"buffer", "stream"}
              /\ readPos' = 0 /\ upSent' = 0 /\ res'.body = <<>>
       /\ SessionEnded =>
              /\ pc' = pc
              /\ res' = res
              /\ readPos' = readPos
              /\ streamBuf' = streamBuf]_vars

(***************************************************************************)
(* C21: no relay session hangs: under fair scheduling of the timer and I/O *)
(* events every request that passed the gate and was dispatched eventually *)
(* reaches Completed or Failed, that is, its handler returns with the      *)
(* response ended or the caller gone.                                      *)
(***************************************************************************)
C21_NoHang ==
    (passedGate /\ pc = "dispatched") ~>
        (pc = "returned" /\ (res.ended \/ ~clientOpen))

(***************************************************************************)
(* C28: after any sequence of log calls the in-memory log buffer holds at  *)
(* most maxLogLines (1000) entries, and they are the most recent lines in  *)
(* the order they were logged: the oldest line is the one evicted.         *)
(***************************************************************************)
C28_LogBufferBounded ==
    LET held == IF logCount < maxLogLines THEN logCount ELSE maxLogLines
    IN  /\ Len(logBuffer) <= maxLogLines
        /\ Len(logBuffer) = held
        /\ \A i \in 1..Len(logBuffer) : logBuffer[i] = logCount - held + i

\* the buffer is full and the first lines have been evicted
C28_Witness ==
    /\ logCount > maxLogLines
    /\ Len(logBuffer) = maxLogLines
    /\ logBuffer[1] = logCount - maxLogLines + 1
    /\ logBuffer[maxLogLines] = logCount

(***************************************************************************)
(* C22: concurrent requests share no mutable state, only the configuration *)
(* fixed at process start: the answer to a request is the same in every    *)
(* interleaving with other requests as when it runs alone.  A request to a *)
(* log route that runs alone is answered with lines of the startup log.    *)
(***************************************************************************)
C22_NoSharedState ==
    logsResp.status = 200 => logsResp.lines = Recent(StartupLog, logsResp.asked)

====
